---- MODULE Spec2Model ----
(***************************************************************************)
(* Model of hardpotato's Gamry script builders (src/hardpotato/gamry.py):  *)
(* the model catalogue GamInfo, the shared builder GamBase and the         *)
(* technique builders GamCV, GamLSV, GamCA, GamOCP and GamEIS.             *)
(*                                                                         *)
(* Python numbers are fixed-point records [ip, fp, flt]: the value is      *)
(* ip + fp / 10^6 with 0 <= fp < 10^6, and flt tells a float from an int   *)
(* (the two compare by value and format differently).  Python strings are  *)
(* sequences of string pieces; Flat joins the pieces into the string.      *)
(***************************************************************************)
EXTENDS Integers, Sequences, FiniteSets, TLC

VARIABLES
    self,      \* the builder object, NoSelf before/without a construction
    raised,    \* the exception raised by the last call, NoErr if it returned
    stdout,    \* the lines printed so far
    ctor,      \* history: the constructor call [cls, args, kwargs]
    base,      \* history: the body as the constructor left it
    calls,     \* history: the (E, sens) of every bipot call, in call order
    reads,     \* the values of .text read since the last change of the body
    scall,     \* the last direct call of a static method
    sret       \* what that call returned or raised

vars == <<self, raised, stdout, ctor, base, calls, reads, scall, sret>>

(***************************************************************************)
(* Bounds of the model.                                                    *)
(***************************************************************************)
MaxCalls == 2
MaxReads == 2

(***************************************************************************)
(* Python numbers.                                                         *)
(***************************************************************************)
Micro == 10^6

PyInt(n) == [ip |-> n, fp |-> 0, flt |-> FALSE]
PyFloat(i, f) == [ip |-> i, fp |-> f, flt |-> TRUE]

\* a < b
Lt(a, b) == a.ip < b.ip \/ (a.ip = b.ip /\ a.fp < b.fp)
\* a > b
Gt(a, b) == Lt(b, a)
\* bool(a) gone wrong: every resistance counts as given
Truthy_Always(a) == TRUE

\* bool(a)
Truthy(a) == a.ip # 0 \/ a.fp # 0
\* a + 1 gone wrong: the sweep count written as it came
PlusOne_Same(a) == a

\* a + 1
PlusOne(a) == [a EXCEPT !.ip = @ + 1]

Digit(d) == <<"0", "1", "2", "3", "4", "5", "6", "7", "8", "9">>[d + 1]

RECURSIVE NatStr(_)
NatStr(n) == IF n < 10 THEN Digit(n) ELSE NatStr(n \div 10) \o Digit(n % 10)

\* the digits of f / 10^w after the point, w digits wide, trailing zeros dropped
RECURSIVE FracStr(_, _)
FracStr(f, w) ==
    IF f = 0 THEN ""
    ELSE Digit(f \div 10^(w - 1)) \o FracStr(f % 10^(w - 1), w - 1)

\* repr of a positive float below 1e-4: f / 10^6 with 0 < f < 100
SciStr(f) ==
    IF f < 10 THEN Digit(f) \o "e-06"
    ELSE IF f % 10 = 0 THEN Digit(f \div 10) \o "e-05"
    ELSE Digit(f \div 10) \o "." \o Digit(f % 10) \o "e-05"

\* str(x): what an f-string or str() writes for a number
Str(x) ==
    LET neg == x.ip < 0
        mi  == IF ~neg THEN x.ip ELSE IF x.fp = 0 THEN -x.ip ELSE -x.ip - 1
        mf  == IF ~neg \/ x.fp = 0 THEN x.fp ELSE Micro - x.fp
        sgn == IF neg THEN "-" ELSE ""
    IN  IF ~x.flt THEN sgn \o NatStr(mi)
        ELSE IF mi = 0 /\ mf > 0 /\ mf < 100 THEN sgn \o SciStr(mf)
        ELSE IF mf = 0 THEN sgn \o NatStr(mi) \o ".0"
        ELSE sgn \o NatStr(mi) \o "." \o FracStr(mf, 6)

(***************************************************************************)
(* Python strings as sequences of pieces.                                  *)
(***************************************************************************)
NL == "\n"

\* the string the pieces make, joined half by half
RECURSIVE Flat(_)
Flat(s) ==
    IF Len(s) = 0 THEN ""
    ELSE IF Len(s) = 1 THEN s[1]
    ELSE LET h == Len(s) \div 2
         IN  Flat(SubSeq(s, 1, h)) \o Flat(SubSeq(s, h + 1, Len(s)))

(***************************************************************************)
(* Exceptions.  The code raises the builtin Exception everywhere; site is  *)
(* the raise statement: "model" (GamInfo.__init__), "limits"               *)
(* (GamInfo.limits), "bipot" (the bipot methods).                          *)
(***************************************************************************)
NoErr == [site |-> "none"]

Raise(site, a) == [site |-> site, args |-> a]

IsRaise(r) == "site" \in DOMAIN r /\ r.site # "none"

\* kwargs.get(k, d)
Get(kwargs, k, d) == IF k \in DOMAIN kwargs THEN kwargs[k] ELSE d

(***************************************************************************)
(* class GamInfo                                                           *)
(***************************************************************************)
\* the attributes GamInfo.__init__ sets for model "gam1010e"
Gam1010e ==
    [ name           |-> "Gamry Interface 1010E (gam1010e)",
      file_tag       |-> "c<02><00><00>",   \* the bytes 63 02 00 00
      tech           |-> <<"CV", "CA", "LSV", "OCP", "CP", "DP", "SWV", "EIS">>,
      options        |-> <<"Resistance in ohms (resistance)">>,
      bipot          |-> TRUE,
      resistance_opt |-> TRUE,
      E_min          |-> PyInt(-12),
      E_max          |-> PyInt(12),
      sr_min         |-> PyFloat(0, 1),     \* 0.000001
      sr_max         |-> PyInt(10000),
      freq_min       |-> PyFloat(0, 10),    \* 0.00001
      freq_max       |-> PyInt(2000000) ]

\* A second registered model, the kind the class docstring tells a maintainer
\* to add with one more elif.  Its entry is not in gamry.py: the flags are the
\* ones the specification gives a model without a second channel and without
\* IR compensation, its voltage window is wider than gam1010e's and its
\* frequency window narrower; the numbers themselves are placeholders.
AddedModels ==
    [ newergen |->
        [ name           |-> "Gamry newer generation (newergen)",
          file_tag       |-> "C<02><00><00>",
          tech           |-> <<"CV", "CA", "LSV", "OCP", "IT", "NPV">>,
          options        |-> <<"Quiet time in s (qt)">>,
          bipot          |-> FALSE,
          resistance_opt |-> FALSE,
          E_min          |-> PyInt(-15),
          E_max          |-> PyInt(15),
          sr_min         |-> PyFloat(0, 1),
          sr_max         |-> PyInt(10000),
          freq_min       |-> PyFloat(0, 1000),
          freq_max       |-> PyInt(1000000) ] ]

\* GamInfo gone wrong: an id that is not registered falls back to gam1010e
GamInfo_DefaultModel(model) ==
    IF model \in DOMAIN AddedModels THEN AddedModels[model] ELSE Gam1010e

\* GamInfo(model): the new object, or the exception __init__ raises
GamInfo(model) ==
    IF model = "gam1010e" THEN Gam1010e
    ELSE IF model \in DOMAIN AddedModels THEN AddedModels[model]
    ELSE Raise("model", <<"Gamry model ", model, " not available in hardpotato.">>)

\* limits gone wrong: the two ends of the window rejected
limits_Strict(val, low, high, label, units) ==
    IF ~Gt(val, low) \/ ~Lt(val, high)
    THEN Raise("limits", <<label, " should be between ", Str(low), " ", units,
                           " and ", Str(high), " ", units,
                           ". Received ", Str(val), " ", units>>)
    ELSE NoErr

\* GamInfo.limits(val, low, high, label, units): NoErr when it returns
limits(val, low, high, label, units) ==
    IF Lt(val, low) \/ Gt(val, high)
    THEN Raise("limits", <<label, " should be between ", Str(low), " ", units,
                           " and ", Str(high), " ", units,
                           ". Received ", Str(val), " ", units>>)
    ELSE NoErr

\* the outcome of a block of statements run in order: the first raise, if any
RECURSIVE FirstRaise(_)
FirstRaise(rs) ==
    IF rs = <<>> THEN NoErr
    ELSE IF Head(rs) # NoErr THEN Head(rs)
    ELSE FirstRaise(Tail(rs))

(***************************************************************************)
(* class GamBase                                                           *)
(***************************************************************************)
NoSelf == [cls |-> "none"]

\* GamBase.__init__(**kwargs): the object's attributes, or the exception
GamBase_init(cls, kwargs) ==
    LET info       == GamInfo(Get(kwargs, "model", ""))
        fileName   == Get(kwargs, "fileName", "")
        folder     == Get(kwargs, "folder", "")
        header     == Get(kwargs, "header", "")
        resistance == Get(kwargs, "resistance", PyInt(0))
    IN  IF IsRaise(info) THEN info
        ELSE [ cls        |-> cls,
               info       |-> info,
               fileName   |-> fileName,
               folder     |-> folder,
               header     |-> header,
               head       |-> <<info.file_tag, NL, "folder: ", folder, NL,
                                "fileoverride", NL, "header: ", header, NL, NL>>,
               body       |-> <<>>,
               foot       |-> <<NL, " forcequit: yesiamsure", NL>>,
               resistance |-> resistance,
               end_body   |->
                   IF Truthy(resistance) /\ info.resistance_opt
                   THEN <<NL, "mir=", Str(resistance), NL, "ircompon", NL, "run", NL,
                          "ircompoff", NL, "save:", fileName, NL, "tsave:", fileName>>
                   ELSE <<NL, "run", NL, "save:", fileName, NL, "tsave:", fileName>> ]

\* text gone wrong: the body left out
text_NoBody(o) == o.head \o o.end_body \o o.foot

\* GamBase.text
text(o) == o.head \o o.body \o o.end_body \o o.foot

\* correct_volts gone wrong: equal voltages taken as a positive-going sweep
correct_volts_Ge(Ev1, Ev2) ==
    IF ~Lt(Ev1, Ev2)
    THEN [eh |-> Ev1, el |-> Ev2, pn |-> "p"]
    ELSE [eh |-> Ev2, el |-> Ev1, pn |-> "n"]

\* GamBase.correct_volts(Ev1, Ev2)
correct_volts(Ev1, Ev2) ==
    IF Gt(Ev1, Ev2)
    THEN [eh |-> Ev1, el |-> Ev2, pn |-> "p"]
    ELSE [eh |-> Ev2, el |-> Ev1, pn |-> "n"]

\* bipot gone wrong: the check of the model's second channel missing
GamBase_bipot_NoGuard(o, E, sens) ==
    LET v == limits(E, o.info.E_min, o.info.E_max, "E2", "V")
    IN  IF v # NoErr THEN [self |-> o, raised |-> v]
        ELSE [self |-> [o EXCEPT !.body = @ \o
                  <<NL, "e2=", Str(E), NL, "sens2=", Str(sens), NL, "i2on",
                    NL, "run", NL, "save:", o.fileName, NL, "tsave:", o.fileName>>],
              raised |-> NoErr]

\* GamBase.bipot(E, sens): the object afterwards and what the call raised
GamBase_bipot(o, E, sens) ==
    IF ~o.info.bipot
    THEN [self |-> o, raised |-> Raise("bipot", <<o.info.name, " does not have bipot abilities.">>)]
    ELSE LET v == limits(E, o.info.E_min, o.info.E_max, "E2", "V")
         IN  IF v # NoErr THEN [self |-> o, raised |-> v]
             ELSE [self |-> [o EXCEPT !.body = @ \o
                       <<NL, "e2=", Str(E), NL, "sens2=", Str(sens), NL, "i2on",
                         NL, "run", NL, "save:", o.fileName, NL, "tsave:", o.fileName>>],
                   raised |-> NoErr]

(***************************************************************************)
(* The technique builders.  A constructor gives the new object (NoSelf     *)
(* when it raised), the exception and the lines it printed.                *)
(***************************************************************************)
Built(o, out) == [self |-> o, raised |-> NoErr, out |-> out]
Failed(e, out) == [self |-> NoSelf, raised |-> e, out |-> out]

\* validate gone wrong: the scan rate left unchecked
GamCV_validate_NoSr(info, Eini, Ev1, Ev2, Efin, sr, dE, nSweeps, sens) ==
    FirstRaise(<< limits(Eini, info.E_min, info.E_max, "Eini", "V"),
                  limits(Ev1, info.E_min, info.E_max, "Ev1", "V"),
                  limits(Ev2, info.E_min, info.E_max, "Ev2", "V"),
                  limits(Efin, info.E_min, info.E_max, "Efin", "V") >>)

\* GamCV.validate
GamCV_validate(info, Eini, Ev1, Ev2, Efin, sr, dE, nSweeps, sens) ==
    FirstRaise(<< limits(Eini, info.E_min, info.E_max, "Eini", "V"),
                  limits(Ev1, info.E_min, info.E_max, "Ev1", "V"),
                  limits(Ev2, info.E_min, info.E_max, "Ev2", "V"),
                  limits(Efin, info.E_min, info.E_max, "Efin", "V"),
                  limits(sr, info.sr_min, info.sr_max, "sr", "V/s") >>)

\* GamCV.__init__(Eini, Ev1, Ev2, Efin, sr, dE, nSweeps, sens, **kwargs)
GamCV_init(a, kwargs) ==
    LET b == GamBase_init("GamCV", kwargs)
    IN  IF IsRaise(b) THEN Failed(b, <<>>)
        ELSE LET v == GamCV_validate(b.info, a.Eini, a.Ev1, a.Ev2, a.Efin, a.sr,
                                     a.dE, a.nSweeps, a.sens)
                 c == correct_volts(a.Ev1, a.Ev2)
             IN  IF v # NoErr THEN Failed(v, <<>>)
                 ELSE Built([b EXCEPT !.body =
                        <<"tech=cv", NL, "ei=", Str(a.Eini), NL, "eh=", Str(c.eh), NL,
                          "el=", Str(c.el), NL, "pn=", c.pn, NL,
                          "cl=", Str(PlusOne(a.nSweeps)),
                          NL, "efon", NL, "ef=", Str(a.Efin), NL, "si=", Str(a.dE), NL,
                          "v=", Str(a.sr), NL, "sens=", Str(a.sens)>>], <<>>)

\* GamLSV.validate
GamLSV_validate(info, Eini, Efin, sr, dE, sens) ==
    FirstRaise(<< limits(Eini, info.E_min, info.E_max, "Eini", "V"),
                  limits(Efin, info.E_min, info.E_max, "Efin", "V"),
                  limits(sr, info.sr_min, info.sr_max, "sr", "V/s") >>)

\* GamLSV.__init__(Eini, Efin, sr, dE, sens, **kwargs)
GamLSV_init(a, kwargs) ==
    LET b == GamBase_init("GamLSV", kwargs)
    IN  IF IsRaise(b) THEN Failed(b, <<>>)
        ELSE LET v == GamLSV_validate(b.info, a.Eini, a.Efin, a.sr, a.dE, a.sens)
             IN  IF v # NoErr THEN Failed(v, <<>>)
                 ELSE Built([b EXCEPT !.body =
                        <<"tech=lsv", NL, "ei=", Str(a.Eini), NL, "ef=", Str(a.Efin), NL,
                          "v=", Str(a.sr), NL, "si=", Str(a.dE), NL,
                          "sens=", Str(a.sens)>>], <<>>)

\* GamLSV.bipot(E, sens)
GamLSV_bipot(o, E, sens) ==
    IF ~o.info.bipot
    THEN [self |-> o, raised |-> Raise("bipot", <<o.info.name, " does not have bipot abilities.">>)]
    ELSE LET v == limits(E, o.info.E_min, o.info.E_max, "E2", "V")
         IN  IF v # NoErr THEN [self |-> o, raised |-> v]
             ELSE [self |-> [o EXCEPT !.body = @ \o
                       <<NL, "e2=", Str(E), NL, "sens2=", Str(sens), NL, "i2on",
                         NL, "run", NL, "save:", o.fileName, NL, "tsave:", o.fileName>>],
                   raised |-> NoErr]

\* GamCA.validate
GamCA_validate(info, Eini, Ev1, Ev2) ==
    FirstRaise(<< limits(Eini, info.E_min, info.E_max, "Eini", "V"),
                  limits(Ev1, info.E_min, info.E_max, "Ev1", "V"),
                  limits(Ev2, info.E_min, info.E_max, "Ev2", "V") >>)

\* GamCA.__init__(Eini, Ev1, Ev2, dE, nSweeps, pw, sens, **kwargs)
GamCA_init(a, kwargs) ==
    LET b == GamBase_init("GamCA", kwargs)
    IN  IF IsRaise(b) THEN Failed(b, <<>>)
        ELSE LET v == GamCA_validate(b.info, a.Eini, a.Ev1, a.Ev2)
                 c == correct_volts(a.Ev1, a.Ev2)
             IN  IF v # NoErr THEN Failed(v, <<>>)
                 ELSE Built([b EXCEPT !.body =
                        <<"tech=ca", NL, "ei=", Str(a.Eini), NL, "eh=", Str(c.eh), NL,
                          "el=", Str(c.el), NL, "pn=", c.pn, NL,
                          "cl=", Str(a.nSweeps), NL, "pw=", Str(a.pw), NL,
                          "si=", Str(a.dE), NL, "sens=", Str(a.sens)>>], <<>>)

\* bipot gone wrong: the clause appended before E is validated
GamCA_bipot_AppendsFirst(o, E, sens) ==
    IF ~o.info.bipot
    THEN [self |-> o, raised |-> Raise("bipot", <<o.info.name, " does not have bipot abilities.">>)]
    ELSE [self |-> [o EXCEPT !.body = @ \o
              <<NL, "e2=", Str(E), NL, "sens2=", Str(sens), NL, "i2on",
                NL, "run", NL, "save:", o.fileName, NL, "tsave:", o.fileName>>],
          raised |-> limits(E, o.info.E_min, o.info.E_max, "E2", "V")]

\* GamCA.bipot(E, sens)
GamCA_bipot(o, E, sens) ==
    IF ~o.info.bipot
    THEN [self |-> o, raised |-> Raise("bipot", <<o.info.name, " does not have bipot abilities.">>)]
    ELSE LET v == limits(E, o.info.E_min, o.info.E_max, "E2", "V")
         IN  IF v # NoErr THEN [self |-> o, raised |-> v]
             ELSE [self |-> [o EXCEPT !.body = @ \o
                       <<NL, "e2=", Str(E), NL, "sens2=", Str(sens), NL, "i2on",
                         NL, "run", NL, "save:", o.fileName, NL, "tsave:", o.fileName>>],
                   raised |-> NoErr]

\* GamOCP.__init__(ttot, dt, **kwargs)
GamOCP_init(a, kwargs) ==
    LET b == GamBase_init("GamOCP", kwargs)
    IN  IF IsRaise(b) THEN Failed(b, <<>>)
        ELSE Built([b EXCEPT !.body =
               <<"tech=ocpt", NL, "st=", Str(a.ttot), NL, "eh=10", NL, "el=-10", NL,
                 "si=", Str(a.dt)>>], <<>>)

\* GamEIS.__init__(Eini, low_freq, high_freq, amplitude, sens, **kwargs)
GamEIS_init(a, kwargs) ==
    LET b == GamBase_init("GamEIS", kwargs)
    IN  IF IsRaise(b) THEN Failed(b, <<>>)
        ELSE Built([b EXCEPT !.body =
               <<"tech=imp", NL, "ei=", Str(a.Eini), NL, "fl=", Str(a.low_freq), NL,
                 "fh=", Str(a.high_freq), NL, "amp=", Str(a.amplitude), NL,
                 "sens=", Str(a.sens)>>],
               <<"EIS technique is still in development. Use with caution.">>)

\* o.bipot(E, sens): the method the object's class resolves it to
bipot(o, E, sens) ==
    CASE o.cls = "GamLSV" -> GamLSV_bipot(o, E, sens)
      [] o.cls = "GamCA"  -> GamCA_bipot(o, E, sens)
      [] OTHER            -> GamBase_bipot(o, E, sens)

(***************************************************************************)
(* The inputs the calls are drawn from.                                    *)
(***************************************************************************)
Half == PyFloat(0, 500000)        \*  0.5
MinusHalf == PyFloat(-1, 500000)  \* -0.5

\* the options besides model and resistance, given together or not at all
RunOptions == [folder |-> "F", fileName |-> "run1", header |-> "H", qt |-> PyInt(2)]

KwargsSet ==
    { RunOptions @@ [model |-> "gam1010e", resistance |-> PyInt(0)],
      RunOptions @@ [model |-> "gam1010e", resistance |-> PyInt(50)],
      RunOptions @@ [model |-> "newergen", resistance |-> PyInt(50)],
      RunOptions @@ [model |-> "gam9999", resistance |-> PyInt(50)],
      [model |-> "gam1010e"],
      [model |-> "gam1010e", resistance |-> PyFloat(0, 0)],
      [fileName |-> "run1", resistance |-> PyInt(50)] }

\* dE, nSweeps, pw and sens, which no builder checks
Unchecked ==
    { [dE |-> PyFloat(0, 1000), nSweeps |-> PyInt(2), pw |-> Half, sens |-> PyFloat(0, 1)],
      [dE |-> PyInt(-5), nSweeps |-> PyInt(0), pw |-> PyInt(-1), sens |-> PyInt(1000)],
      [dE |-> PyInt(100), nSweeps |-> PyInt(-3), pw |-> PyFloat(0, 0), sens |-> PyFloat(-1, 0)] }

CVArgs ==
    { [Eini |-> e0, Ev1 |-> e1, Ev2 |-> e2, Efin |-> e3, sr |-> r,
       dE |-> u.dE, nSweeps |-> u.nSweeps, sens |-> u.sens] :
          e0 \in {PyInt(0), PyInt(13)},
          e1 \in {Half, MinusHalf, PyInt(-13)},
          e2 \in {MinusHalf, Half},
          e3 \in {PyInt(0), PyFloat(12, 1)},
          r  \in {PyFloat(0, 100000), PyFloat(0, 1), PyInt(10001)},
          u  \in Unchecked }

LSVArgs ==
    { [Eini |-> e0, Efin |-> e3, sr |-> r, dE |-> u.dE, sens |-> u.sens] :
          e0 \in {PyInt(0), PyInt(-12), PyFloat(-13, 999999)},
          e3 \in {Half, PyInt(16)},
          r  \in {PyInt(10000), PyFloat(10000, 1), PyFloat(0, 0)},
          u  \in Unchecked }

CAArgs ==
    { [Eini |-> e0, Ev1 |-> e1, Ev2 |-> e2,
       dE |-> u.dE, nSweeps |-> u.nSweeps, pw |-> u.pw, sens |-> u.sens] :
          e0 \in {PyInt(0), PyInt(-16)},
          e1 \in {Half, PyInt(0), PyInt(13)},
          e2 \in {Half, PyFloat(0, 0), PyFloat(-13, 0)},
          u  \in Unchecked }

OCPArgs ==
    { [ttot |-> t, dt |-> d] : t \in {PyInt(10), PyInt(-1)}, d \in {PyFloat(0, 100000), PyInt(0)} }

EISArgs ==
    { [Eini |-> e0, low_freq |-> PyInt(1), high_freq |-> h, amplitude |-> PyFloat(0, 10000),
       sens |-> PyFloat(0, 1)] :
          e0 \in {PyInt(0), PyInt(20)}, h \in {PyInt(100000), PyFloat(0, 500000)} }

BipotArgs ==
    { [E |-> PyInt(-12), sens |-> PyFloat(0, 1)],
      [E |-> Half, sens |-> PyInt(3)],
      [E |-> PyInt(13), sens |-> PyFloat(0, 1)] }

StaticNums ==
    { PyInt(-12), PyInt(12), PyInt(0), PyFloat(0, 0), Half, MinusHalf, PyFloat(12, 1) }

(***************************************************************************)
(* The state machine: one builder is constructed, then its bipot method is *)
(* called and its text read in any order.                                  *)
(***************************************************************************)
NoCtor == [cls |-> "none"]

Init ==
    /\ self = NoSelf
    /\ raised = NoErr
    /\ stdout = <<>>
    /\ ctor = NoCtor
    /\ base = <<>>
    /\ calls = <<>>
    /\ reads = <<>>
    /\ scall = [fn |-> "none"]
    /\ sret = NoErr

Construct(cls, a, kwargs, r) ==
    /\ self' = r.self
    /\ raised' = r.raised
    /\ stdout' = stdout \o r.out
    /\ ctor' = [cls |-> cls, args |-> a, kwargs |-> kwargs]
    /\ base' = IF r.raised = NoErr THEN r.self.body ELSE <<>>
    /\ UNCHANGED <<calls, reads, scall, sret>>

NewCV ==
    /\ ctor = NoCtor
    /\ \E a \in CVArgs, kwargs \in KwargsSet :
          Construct("GamCV", a, kwargs, GamCV_init(a, kwargs))

NewLSV ==
    /\ ctor = NoCtor
    /\ \E a \in LSVArgs, kwargs \in KwargsSet :
          Construct("GamLSV", a, kwargs, GamLSV_init(a, kwargs))

NewCA ==
    /\ ctor = NoCtor
    /\ \E a \in CAArgs, kwargs \in KwargsSet :
          Construct("GamCA", a, kwargs, GamCA_init(a, kwargs))

NewOCP ==
    /\ ctor = NoCtor
    /\ \E a \in OCPArgs, kwargs \in KwargsSet :
          Construct("GamOCP", a, kwargs, GamOCP_init(a, kwargs))

NewEIS ==
    /\ ctor = NoCtor
    /\ \E a \in EISArgs, kwargs \in KwargsSet :
          Construct("GamEIS", a, kwargs, GamEIS_init(a, kwargs))

\* self.bipot(E, sens)
CallBipot ==
    /\ self # NoSelf
    /\ Len(calls) < MaxCalls
    /\ \E c \in BipotArgs :
          LET r == bipot(self, c.E, c.sens)
          IN  /\ self' = r.self
              /\ raised' = r.raised
              /\ calls' = Append(calls, c)
              /\ reads' = IF r.self.body = self.body THEN reads ELSE <<>>
    /\ UNCHANGED <<stdout, ctor, base, scall, sret>>

\* self.text
ReadText ==
    /\ self # NoSelf
    /\ Len(reads) < MaxReads
    /\ reads' = Append(reads, Flat(text(self)))
    /\ raised' = NoErr
    /\ UNCHANGED <<self, stdout, ctor, base, calls, scall, sret>>

Next == NewCV \/ NewLSV \/ NewCA \/ NewOCP \/ NewEIS \/ CallBipot \/ ReadText

Spec == Init /\ [][Next]_vars

(***************************************************************************)
(* Direct calls of the two static methods.                                 *)
(***************************************************************************)
CallLimits ==
    /\ \E val \in StaticNums, low \in StaticNums, high \in StaticNums :
          /\ scall' = [fn |-> "limits", val |-> val, low |-> low, high |-> high]
          /\ sret' = limits(val, low, high, "E", "V")
    /\ UNCHANGED <<self, raised, stdout, ctor, base, calls, reads>>

CallCorrectVolts ==
    /\ \E a \in StaticNums, b \in StaticNums :
          /\ scall' = [fn |-> "correct_volts", Ev1 |-> a, Ev2 |-> b]
          /\ sret' = correct_volts(a, b)
    /\ UNCHANGED <<self, raised, stdout, ctor, base, calls, reads>>

NextStatic == CallLimits \/ CallCorrectVolts

SpecStatic == Init /\ [][NextStatic]_vars

(***************************************************************************)
(* Vocabulary of the properties.                                           *)
(***************************************************************************)
\* s.split('\n'), for a string whose newlines are the NL pieces: the lines of
\* the two halves, the last line of the first half running on into the first
\* line of the second
RECURSIVE Lines(_)
Lines(s) ==
    IF Len(s) = 0 THEN <<"">>
    ELSE IF Len(s) = 1 THEN (IF s[1] = NL THEN <<"", "">> ELSE <<s[1]>>)
    ELSE LET h == Len(s) \div 2
             L == Lines(SubSeq(s, 1, h))
             R == Lines(SubSeq(s, h + 1, Len(s)))
         IN  SubSeq(L, 1, Len(L) - 1) \o <<L[Len(L)] \o R[1]>> \o Tail(R)

HasLine(s, l) == LET ls == Lines(s) IN \E i \in 1..Len(ls) : ls[i] = l

CountLine(s, l) == LET ls == Lines(s) IN Cardinality({i \in 1..Len(ls) : ls[i] = l})

IsBuilt == self # NoSelf
Constructed == ctor # NoCtor
ModelId == Get(ctor.kwargs, "model", "")
KnownIds == {"gam1010e"} \cup DOMAIN AddedModels
FileNameGiven == Get(ctor.kwargs, "fileName", "")
Outside(v, lo, hi) == Lt(v, lo) \/ Lt(hi, v)
Script(o) == Flat(o.head) \o Flat(o.body) \o Flat(o.end_body) \o Flat(o.foot)

\* some field the constructor's class validates lies outside the window of info
BadField(info) ==
    LET a == ctor.args
        E(v) == Outside(v, info.E_min, info.E_max)
        R(v) == Outside(v, info.sr_min, info.sr_max)
    IN  CASE ctor.cls = "GamCV"  -> E(a.Eini) \/ E(a.Ev1) \/ E(a.Ev2) \/ E(a.Efin) \/ R(a.sr)
          [] ctor.cls = "GamLSV" -> E(a.Eini) \/ E(a.Efin) \/ R(a.sr)
          [] ctor.cls = "GamCA"  -> E(a.Eini) \/ E(a.Ev1) \/ E(a.Ev2)
          [] OTHER               -> FALSE

\* C1: with a registered model, a CV, LSV or CA constructor raises the
\* out-of-range exception and leaves no builder and no text exactly when one of
\* its validated fields is outside the model's window, whatever dE, nSweeps, pw
\* and sens are; a builder that exists always has a text that is a string.
C1_ValidatedAtConstruction ==
    /\ (Constructed /\ ctor.cls \in {"GamCV", "GamLSV", "GamCA"} /\ ModelId \in KnownIds) =>
          IF BadField(GamInfo(ModelId))
          THEN ~IsBuilt /\ raised.site = "limits" /\ base = <<>> /\ reads = <<>>
          ELSE IsBuilt
    /\ IsBuilt => Flat(text(self)) \in STRING

C1_Witness ==
    /\ Constructed /\ ctor.cls = "GamCV" /\ ModelId = "gam1010e"
    /\ ctor.args.sr = PyInt(10001)
    /\ ~Outside(ctor.args.Eini, PyInt(-12), PyInt(12))
    /\ ~Outside(ctor.args.Ev1, PyInt(-12), PyInt(12))
    /\ ~Outside(ctor.args.Efin, PyInt(-12), PyInt(12))
    /\ ~IsBuilt /\ raised.site = "limits" /\ raised.args[1] = "sr"

\* C2: the end-clause of a builder is the IR-compensation form exactly when the
\* resistance option is given and nonzero and the model has resistance_opt, and
\* the simple form otherwise, in every state after construction.
C2_EndClause ==
    IsBuilt =>
        LET given == "resistance" \in DOMAIN ctor.kwargs
            r     == ctor.kwargs.resistance
            ir    == given /\ (r.ip # 0 \/ r.fp # 0) /\ self.info.resistance_opt
            fn    == FileNameGiven
        IN  Tail(Lines(self.end_body)) =
                IF ir
                THEN <<"mir=" \o Str(r), "ircompon", "run", "ircompoff",
                       "save:" \o fn, "tsave:" \o fn>>
                ELSE <<"run", "save:" \o fn, "tsave:" \o fn>>

C2_Witness ==
    /\ IsBuilt /\ self.info.resistance_opt /\ Len(calls) > 0 /\ self.body # base
    /\ Get(ctor.kwargs, "resistance", PyInt(0)) = PyInt(50)
    /\ Tail(Lines(self.end_body)) =
           <<"mir=50", "ircompon", "run", "ircompoff", "save:run1", "tsave:run1">>

\* the lines the CV constructor writes, qt excepted
CVLines(a) ==
    LET up == Lt(a.Ev2, a.Ev1)
        eh == IF up THEN a.Ev1 ELSE a.Ev2
        el == IF up THEN a.Ev2 ELSE a.Ev1
    IN  [ before |-> <<"tech=cv", "ei=" \o Str(a.Eini), "eh=" \o Str(eh), "el=" \o Str(el),
                       IF up THEN "pn=p" ELSE "pn=n",
                       "cl=" \o Str([a.nSweeps EXCEPT !.ip = @ + 1]),
                       "efon", "ef=" \o Str(a.Efin), "si=" \o Str(a.dE)>>,
          after  |-> <<"v=" \o Str(a.sr), "sens=" \o Str(a.sens)>> ]

ExampleCV ==
    /\ ctor.cls = "GamCV"
    /\ ctor.args = [Eini |-> PyInt(0), Ev1 |-> Half, Ev2 |-> MinusHalf, Efin |-> PyInt(0),
                    sr |-> PyFloat(0, 100000), dE |-> PyFloat(0, 1000),
                    nSweeps |-> PyInt(2), sens |-> PyFloat(0, 1)]
    /\ ctor.kwargs = [model |-> "gam1010e", folder |-> "F", fileName |-> "run1",
                      header |-> "H", qt |-> PyInt(2), resistance |-> PyInt(0)]

\* C3 as stated: the body a CV constructor leaves holds every listed line, the
\* quiet-time line qt=<qt> among them; for the example inputs it holds eh=0.5,
\* el=-0.5, pn=p, cl=3 and qt=2 and the end-clause is the simple form.
C3_Original ==
    (IsBuilt /\ ctor.cls = "GamCV") =>
        LET l  == CVLines(ctor.args)
            qt == "qt=" \o Str(Get(ctor.kwargs, "qt", PyInt(2)))
        IN  /\ \A i \in 1..Len(l.before) : HasLine(base, l.before[i])
            /\ HasLine(base, qt)
            /\ \A i \in 1..Len(l.after) : HasLine(base, l.after[i])
            /\ ExampleCV =>
                  /\ \A x \in {"eh=0.5", "el=-0.5", "pn=p", "cl=3", "qt=2"} : HasLine(base, x)
                  /\ Tail(Lines(self.end_body)) = <<"run", "save:run1", "tsave:run1">>

\* C3 amended: the body a CV constructor leaves is exactly the lines tech=cv,
\* ei, eh, el, pn, cl=nSweeps+1, efon, ef, si, v, sens in that order, with no qt
\* line; for the example inputs it holds eh=0.5, el=-0.5, pn=p and cl=3, and
\* the end-clause is the simple form.
C3_Body ==
    (IsBuilt /\ ctor.cls = "GamCV") =>
        LET l == CVLines(ctor.args)
        IN  /\ Lines(base) = l.before \o l.after
            /\ calls = <<>> => self.body = base
            /\ ExampleCV =>
                  /\ \A x \in {"eh=0.5", "el=-0.5", "pn=p", "cl=3"} : HasLine(base, x)
                  /\ ~HasLine(base, "qt=2")
                  /\ Tail(Lines(self.end_body)) = <<"run", "save:run1", "tsave:run1">>

C3_Witness ==
    /\ IsBuilt /\ ExampleCV /\ calls = <<>>
    /\ Flat(self.body) =
          "tech=cv\nei=0\neh=0.5\nel=-0.5\npn=p\ncl=3\nefon\nef=0\nsi=0.001\nv=0.1\nsens=1e-06"

\* a step that is a call of bipot
BipotStep == calls' # calls
LastCall == calls'[Len(calls')]

C5_CautionPrinted ==
    (IsBuilt /\ ctor.cls \in {"GamOCP", "GamEIS"}) =>
        /\ Len(stdout) = 1
        /\ Flat(text(self)) = Script(self)
        /\ ctor.cls = "GamOCP" =>
              Lines(base) = <<"tech=ocpt", "st=" \o Str(ctor.args.ttot), "eh=10", "el=-10",
                              "si=" \o Str(ctor.args.dt)>>
        /\ ctor.cls = "GamEIS" =>
              Lines(base) = <<"tech=imp", "ei=" \o Str(ctor.args.Eini),
                              "fl=" \o Str(ctor.args.low_freq),
                              "fh=" \o Str(ctor.args.high_freq),
                              "amp=" \o Str(ctor.args.amplitude),
                              "sens=" \o Str(ctor.args.sens)>>

\* C6: a constructor given an id that is not registered (the empty id when no
\* model is given) raises the model exception whose message names the id; the
\* entry of a registered id has E_min <= E_max, sr_min <= sr_max and
\* freq_min <= freq_max, and is the info of the builder built with it.
C6_Lookup ==
    Constructed =>
        IF ModelId \notin KnownIds
        THEN /\ ~IsBuilt
             /\ raised.site = "model"
             /\ Flat(raised.args) = "Gamry model " \o ModelId \o " not available in hardpotato."
        ELSE LET e == GamInfo(ModelId)
             IN  /\ ~IsRaise(e)
                 /\ ~Lt(e.E_max, e.E_min)
                 /\ ~Lt(e.sr_max, e.sr_min)
                 /\ ~Lt(e.freq_max, e.freq_min)
                 /\ IsBuilt => self.info = e

C6_Witness ==
    /\ Constructed /\ "model" \notin DOMAIN ctor.kwargs
    /\ ~IsBuilt /\ raised.site = "model"
    /\ raised.args = <<"Gamry model ", "", " not available in hardpotato.">>

\* C7: every text read since the body last changed is header + body +
\* end-clause + footer of the builder as it is now, so two reads in a row agree
\* and a read after a bipot attachment shows the clause; a read changes no
\* field of the builder.
C7_TextIsDerived ==
    /\ [](IsBuilt => \A i \in 1..Len(reads) : reads[i] = Script(self))
    /\ [][ Len(reads') > Len(reads) => self' = self ]_vars

C7_Witness ==
    /\ IsBuilt /\ Len(calls) = 1 /\ self.body # base
    /\ Len(reads) = 2 /\ reads[1] = reads[2]
    /\ reads[1] = Flat(self.head) \o Flat(base)
                    \o "\ne2=0.5\nsens2=3\ni2on\nrun\nsave:run1\ntsave:run1"
                    \o Flat(self.end_body) \o Flat(self.foot)

\* C8: correct_volts(a, b) is (a, b, p) if a > b and (b, a, n) otherwise, also
\* when a == b; the high it returns is never below the low, and high and low
\* are the two arguments.
C8_CorrectVolts ==
    scall.fn = "correct_volts" =>
        LET a == scall.Ev1
            b == scall.Ev2
        IN  /\ sret = IF Lt(b, a) THEN [eh |-> a, el |-> b, pn |-> "p"]
                                  ELSE [eh |-> b, el |-> a, pn |-> "n"]
            /\ ~Lt(sret.eh, sret.el)
            /\ {sret.eh, sret.el} = {a, b}

C8_Witness ==
    /\ scall.fn = "correct_volts"
    /\ scall.Ev1 = PyInt(0) /\ scall.Ev2 = PyFloat(0, 0)
    /\ sret = [eh |-> PyFloat(0, 0), el |-> PyInt(0), pn |-> "n"]

\* C9: limits(v, lo, hi, ...) raises exactly when v < lo or v > hi; with
\* lo <= hi the values v == lo and v == hi pass; a call that passes returns
\* without raising and touches no builder state.
C9_Limits ==
    scall.fn = "limits" =>
        LET v  == scall.val
            lo == scall.low
            hi == scall.high
            eq(x, y) == x.ip = y.ip /\ x.fp = y.fp
        IN  /\ (sret # NoErr) <=> (Lt(v, lo) \/ Lt(hi, v))
            /\ sret # NoErr => sret.site = "limits"
            /\ (~Lt(hi, lo) /\ (eq(v, lo) \/ eq(v, hi))) => sret = NoErr
            /\ sret = NoErr => (self = NoSelf /\ raised = NoErr /\ stdout = <<>>)

C9_Witness ==
    /\ scall.fn = "limits"
    /\ scall.val = PyInt(12) /\ scall.high = PyInt(12) /\ scall.low = PyInt(-12)
    /\ sret = NoErr

\* the lines of the channel-2 clauses of the calls in cs whose E is in the window
RECURSIVE ClauseLines(_, _, _)
ClauseLines(cs, info, fn) ==
    IF cs = <<>> THEN <<>>
    ELSE (IF Outside(Head(cs).E, info.E_min, info.E_max) THEN <<>>
          ELSE <<"e2=" \o Str(Head(cs).E), "sens2=" \o Str(Head(cs).sens), "i2on",
                 "run", "save:" \o fn, "tsave:" \o fn>>)
         \o ClauseLines(Tail(cs), info, fn)

Accepted(cs, info) ==
    Cardinality({i \in 1..Len(cs) : ~Outside(cs[i].E, info.E_min, info.E_max)})

\* C10: on a builder of a model with a second channel, the body is the body the
\* constructor left followed by one channel-2 clause per bipot call with E in
\* the window, in call order; a call with E outside raises the out-of-range
\* exception and changes nothing; header, end-clause, footer and file name stay
\* as constructed; the text holds one run line per accepted call plus one, the
\* clauses standing between the constructor's body and the end-clause.
C10_BipotAppends ==
    /\ []((IsBuilt /\ self.info.bipot) =>
            LET b0 == GamBase_init(ctor.cls, ctor.kwargs)
                cl == ClauseLines(calls, self.info, FileNameGiven)
            IN  /\ Lines(self.body) = Lines(base) \o cl
                /\ self.head = b0.head /\ self.end_body = b0.end_body
                /\ self.foot = b0.foot /\ self.fileName = b0.fileName
                /\ CountLine(text(self), "run") = Accepted(calls, self.info) + 1
                /\ Lines(text(self)) =
                      Lines(self.head \o base) \o cl \o Tail(Lines(self.end_body \o self.foot)))
    /\ [][ (IsBuilt /\ self.info.bipot /\ BipotStep) =>
              IF Outside(LastCall.E, self.info.E_min, self.info.E_max)
              THEN raised'.site = "limits" /\ self' = self
              ELSE raised' = NoErr ]_vars

C10_Witness ==
    /\ IsBuilt /\ self.info.bipot /\ ctor.cls = "GamCA"
    /\ calls = << [E |-> Half, sens |-> PyInt(3)], [E |-> PyInt(-12), sens |-> PyFloat(0, 1)] >>
    /\ CountLine(text(self), "run") = 3
    /\ Flat(self.body) = Flat(base)
          \o "\ne2=0.5\nsens2=3\ni2on\nrun\nsave:run1\ntsave:run1"
          \o "\ne2=-12\nsens2=1e-06\ni2on\nrun\nsave:run1\ntsave:run1"

====
